---- MODULE Spec2Model ----
(***************************************************************************)
(* A model of minitorch/module.py: the Module tree (its two ordered        *)
(* dictionaries _modules and _parameters and its training flag), the       *)
(* attribute router (__setattr__ / __getattr__ / add_parameter), the four  *)
(* queue-driven traversals (train, eval, named_parameters, parameters)     *)
(* and the Parameter box (__init__ / update).                              *)
(*                                                                         *)
(* Objects are integers: a Module is an element of Modules, a Parameter an *)
(* element of ParamIds; both are handed out in construction order.  A      *)
(* Python dict is a sequence of <<key, value>> pairs with distinct keys,   *)
(* in insertion order.  An Optional[str] is a sequence of at most one      *)
(* string (<<>> is None).                                                  *)
(***************************************************************************)
EXTENDS Integers, Sequences, FiniteSets, TLC

VARIABLES
    nmods,        \* number of Module objects constructed so far
    nparams,      \* number of Parameter objects constructed so far
    _modules,     \* Module -> dict name -> Module          (self._modules)
    _parameters,  \* Module -> dict name -> Parameter       (self._parameters)
    training,     \* Module -> bool                         (self.training)
    fields,       \* Module -> (name -> plain value or 0)   (other entries of self.__dict__)
    pobj,         \* Parameter -> [value, name]             (Parameter.value, Parameter.name)
    pc,           \* "idle", or the method whose while loop is executing
    self,         \* the Module the executing method was called on (0 when idle)
    queue,        \* the deque of the executing method (to_set / to_add): its Modules
    qnames,       \* named_parameters: the name paired with each Module of the deque
    params,       \* the list `params` of named_parameters / parameters: its Parameters
    pnames,       \* named_parameters: the name paired with each Parameter of `params`
    popped,       \* log: how often popleft() returned each Module during the executing call
    last,         \* log: the call that returned last, and what a lookup returned
    nops          \* log: how many bindings were made (counted where a bound needs it)

vars == <<nmods, nparams, _modules, _parameters, training, fields, pobj,
          pc, self, queue, qnames, params, pnames, popped, last, nops>>

----------------------------------------------------------------------------
(* Bounds of the model.                                                    *)

\* Module objects and Parameter objects that may be constructed.
Modules == {1, 2, 3, 4}
ParamIds == {1, 2, 3}
\* Bindings one behaviour may make where Modules and Parameters are bound
\* without restriction.
MaxOps == 3
MaxFairOps == 2
\* Entries the deque, and the result list, of a traversal may hold, and the
\* length of a qualified name in the deque (all grow without bound on a cycle).
MaxQueue == 3
MaxResult == 4
MaxNameLen == 5

\* Local names bound in the tree.
Names == {"a", "b"}

None == <<>>
Some(s) == <<s>>

----------------------------------------------------------------------------
(* Python dict, insertion ordered.                                         *)

Keys(d) == [i \in 1..Len(d) |-> d[i][1]]
Values(d) == [i \in 1..Len(d) |-> d[i][2]]
Has(d, k) == \E i \in 1..Len(d) : d[i][1] = k
Get(d, k) == d[CHOOSE i \in 1..Len(d) : d[i][1] = k][2]

\* The dict (or list of pairs) with keys ks and values vs, in that order.
Zip(ks, vs) == [i \in 1..Len(vs) |-> <<ks[i], vs[i]>>]

\* The dict without key k.
Without(d, k) == SelectSeq(d, LAMBDA e : e[1] # k)

\* A d[k] = v that moves a replaced key to the end.
DictSet_move(d, k, v) == Append(Without(d, k), <<k, v>>)

\* d[k] = v
DictSet(d, k, v) ==
    IF Has(d, k)
    THEN [i \in 1..Len(d) |-> IF d[i][1] = k THEN <<k, v>> ELSE d[i]]
    ELSE Append(d, <<k, v>>)

----------------------------------------------------------------------------
(* The payload a Parameter wraps.  Its class is not part of this module:   *)
(* a payload is a record of what Parameter can observe of it.              *)
(*   grad  : "na" when it has no requires_grad_ method, else "off" / "on"  *)
(*   named : whether it has a name attribute                               *)
(*   name  : the value of that attribute (None when there is none)         *)

Payload(g, n, nm) == [grad |-> g, named |-> n, name |-> nm]

\* A plain number such as 5 or 3.0.
Num == Payload("na", FALSE, None)

\* hasattr(x, "requires_grad_")
hasattr_requires_grad_(x) == x.grad # "na"

\* x.requires_grad_(b)
requires_grad_(x, b) == [x EXCEPT !.grad = IF b THEN "on" ELSE "off"]

\* x.name = s   (attribute assignment creates the attribute when missing)
SetName(x, s) == [x EXCEPT !.named = TRUE, !.name = s]

\* bool(name) for an Optional[str]: None and "" are falsy.
Truthy(nm) == nm # None /\ nm # Some("")

----------------------------------------------------------------------------
(* class Parameter                                                         *)

\* Parameter(x, name)
Parameter__init__(x, nm) ==
    LET p == [value |-> x, name |-> nm]
    IN  IF hasattr_requires_grad_(x)
        THEN LET q == [p EXCEPT !.value = requires_grad_(p.value, TRUE)]
             IN  IF Truthy(q.name)
                 THEN [q EXCEPT !.value = SetName(q.value, q.name)]
                 ELSE q
        ELSE p

\* An update that stores the value and its name but does not mark it trainable.
Parameter_update_unmarked(p0, x) ==
    LET p == [p0 EXCEPT !.value = x]
    IN  IF hasattr_requires_grad_(x) /\ Truthy(p.name)
        THEN [p EXCEPT !.value = SetName(p.value, p.name)]
        ELSE p

\* p.update(x)
Parameter_update(p0, x) ==
    LET p == [p0 EXCEPT !.value = x]
    IN  IF hasattr_requires_grad_(x)
        THEN LET q == [p EXCEPT !.value = requires_grad_(p.value, TRUE)]
             IN  IF Truthy(q.name)
                 THEN [q EXCEPT !.value = SetName(q.value, q.name)]
                 ELSE q
        ELSE p

\* The slot of a Parameter that has not been constructed.
NoParam == [value |-> Num, name |-> None]

----------------------------------------------------------------------------
(* class Module: shallow accessors.                                        *)

\* list(m.values())
modules(m) == Values(_modules[m])

\* [(name, mod) for name, mod in m.items()]
named_children(m) == _modules[m]

----------------------------------------------------------------------------
(* class Module: the attribute router.                                     *)

\* A value bound to an attribute: a Parameter, a Module, or anything else.
AsParameter(p) == [kind |-> "Parameter", id |-> p]
AsModule(c) == [kind |-> "Module", id |-> c]
AsPlain(v) == [kind |-> "plain", id |-> v]
NoneValue == [kind |-> "None", id |-> 0]

\* A router that keeps a name in one store only: binding a Parameter drops
\* a same-named child and binding a Module drops a same-named Parameter.
__setattr___exclusive(m, key, val) ==
    IF val.kind = "Parameter"
    THEN /\ _parameters' = [_parameters EXCEPT ![m] = DictSet(@, key, val.id)]
         /\ _modules' = [_modules EXCEPT ![m] = Without(@, key)]
         /\ UNCHANGED fields
    ELSE IF val.kind = "Module"
    THEN /\ _modules' = [_modules EXCEPT ![m] = DictSet(@, key, val.id)]
         /\ _parameters' = [_parameters EXCEPT ![m] = Without(@, key)]
         /\ UNCHANGED fields
    ELSE /\ fields' = [fields EXCEPT ![m][key] = val.id]
         /\ UNCHANGED <<_modules, _parameters>>

\* m.key = val : the three stores after the assignment.
__setattr__(m, key, val) ==
    IF val.kind = "Parameter"
    THEN /\ _parameters' = [_parameters EXCEPT ![m] = DictSet(@, key, val.id)]
         /\ UNCHANGED <<_modules, fields>>
    ELSE IF val.kind = "Module"
    THEN /\ _modules' = [_modules EXCEPT ![m] = DictSet(@, key, val.id)]
         /\ UNCHANGED <<_parameters, fields>>
    ELSE /\ fields' = [fields EXCEPT ![m][key] = val.id]
         /\ UNCHANGED <<_modules, _parameters>>

\* A fallback that searches the children before the parameters.
__getattr___children_first(m, key) ==
    IF Has(_modules[m], key)
    THEN AsModule(Get(_modules[m], key))
    ELSE IF Has(_parameters[m], key)
    THEN AsParameter(Get(_parameters[m], key))
    ELSE NoneValue

\* The fallback Python calls when normal attribute lookup finds nothing.
__getattr__(m, key) ==
    IF Has(_parameters[m], key)
    THEN AsParameter(Get(_parameters[m], key))
    ELSE IF Has(_modules[m], key)
    THEN AsModule(Get(_modules[m], key))
    ELSE NoneValue

\* m.key : the instance's own attributes first, then __getattr__.
getattr(m, key) ==
    IF fields[m][key] # 0
    THEN AsPlain(fields[m][key])
    ELSE __getattr__(m, key)

----------------------------------------------------------------------------
(* class Module: the traversals.  Each *_iter is one iteration of the      *)
(* method's while loop; each *_loop runs the loop to its end.              *)

\* A train that sets the flag of the direct children only.
train_iter_shallow(to_set, tr) ==
    [queue |-> Tail(to_set), training |-> [tr EXCEPT ![Head(to_set)] = TRUE]]

\* train: popleft, set the flag, extend with the children.
train_iter(to_set, tr) ==
    LET mChild == Head(to_set)
    IN  [queue |-> Tail(to_set) \o modules(mChild),
         training |-> [tr EXCEPT ![mChild] = TRUE]]

\* An eval that reads the head of the deque without removing it.
eval_iter_peek(to_set, tr) ==
    [queue |-> to_set \o modules(Head(to_set)),
     training |-> [tr EXCEPT ![Head(to_set)] = FALSE]]

\* eval: popleft, clear the flag, extend with the children.
eval_iter(to_set, tr) ==
    LET mChild == Head(to_set)
    IN  [queue |-> Tail(to_set) \o modules(mChild),
         training |-> [tr EXCEPT ![mChild] = FALSE]]

\* A qualified name that forgets the prefix.
Dotted_local(name, n) == n

\* f"{name}.{n}"
Dotted(name, n) == name \o "." \o n

\* A named_parameters that walks depth first: the children of the dequeued
\* Module go to the front of the deque.
named_parameters_iter_dfs(to_add, ps) ==
    LET name == Head(to_add)[1]
        mChild == Head(to_add)[2]
        kids == [i \in 1..Len(_modules[mChild]) |->
                   <<name \o "." \o _modules[mChild][i][1], _modules[mChild][i][2]>>]
    IN  [queue |-> kids \o Tail(to_add),
         params |-> ps \o [i \in 1..Len(_parameters[mChild]) |->
                             <<name \o "." \o _parameters[mChild][i][1],
                               _parameters[mChild][i][2]>>]]

\* named_parameters: popleft (name, mChild), append its parameters under
\* name.n, extend with its children under name.n.
named_parameters_iter(to_add, ps) ==
    LET name == Head(to_add)[1]
        mChild == Head(to_add)[2]
        mChild_params == _parameters[mChild]
        extended_names ==
            [i \in 1..Len(named_children(mChild)) |->
                <<Dotted(name, named_children(mChild)[i][1]),
                  named_children(mChild)[i][2]>>]
    IN  [queue |-> Tail(to_add) \o extended_names,
         params |-> ps \o [i \in 1..Len(mChild_params) |->
                             <<Dotted(name, mChild_params[i][1]),
                               mChild_params[i][2]>>]]

\* A parameters that extends the deque with the children of the receiver
\* instead of those of the dequeued Module.
parameters_iter_receiver(to_add, ps) ==
    [queue |-> Tail(to_add) \o modules(self),
     params |-> ps \o Values(_parameters[Head(to_add)])]

\* A parameters that skips the names but also the first own parameter of
\* each dequeued Module.
parameters_iter_skipfirst(to_add, ps) ==
    LET own == Values(_parameters[Head(to_add)])
    IN  [queue |-> Tail(to_add) \o modules(Head(to_add)),
         params |-> ps \o (IF Len(own) > 1 THEN Tail(own) ELSE own)]

\* parameters: popleft mChild, append its parameters, extend with its children.
parameters_iter(to_add, ps) ==
    LET mChild == Head(to_add)
        mChild_params == _parameters[mChild]
    IN  [queue |-> Tail(to_add) \o modules(mChild),
         params |-> ps \o Values(mChild_params)]

RECURSIVE named_parameters_loop(_, _)
named_parameters_loop(to_add, ps) ==
    IF Len(to_add) > 0
    THEN LET s == named_parameters_iter(to_add, ps)
         IN  named_parameters_loop(s.queue, s.params)
    ELSE ps

RECURSIVE parameters_loop(_, _)
parameters_loop(to_add, ps) ==
    IF Len(to_add) > 0
    THEN LET s == parameters_iter(to_add, ps)
         IN  parameters_loop(s.queue, s.params)
    ELSE ps

\* m.named_parameters(), m.parameters(): defined when the loop ends.
named_parameters(m) == named_parameters_loop(named_children(m), _parameters[m])
parameters(m) == parameters_loop(modules(m), Values(_parameters[m]))

----------------------------------------------------------------------------
(* The state after `Module()` constructed the first Module: every slot is  *)
(* as Module.__init__ leaves it.                                           *)

AllNames == Names \cup {"a.b"}

NoPops == [x \in Modules |-> 0]

NoOp == [op |-> "none", m |-> 0, key |-> "", ret |-> NoneValue]

Init ==
    /\ nmods = 1
    /\ nparams = 0
    /\ _modules = [m \in Modules |-> <<>>]
    /\ _parameters = [m \in Modules |-> <<>>]
    /\ training = [m \in Modules |-> TRUE]
    /\ fields = [m \in Modules |-> [k \in AllNames |-> 0]]
    /\ pobj = [p \in ParamIds |-> NoParam]
    /\ pc = "idle"
    /\ self = 0
    /\ queue = <<>>
    /\ qnames = <<>>
    /\ params = <<>>
    /\ pnames = <<>>
    /\ popped = NoPops
    /\ last = NoOp
    /\ nops = 0

Max(i, j) == IF i > j THEN i ELSE j

loopvars == <<pc, self, queue, qnames, params, pnames, popped>>

\* The log of popleft(): how often each Module was dequeued, counted 0, 1, many.
Pop(log, m) == [log EXCEPT ![m] = IF @ = 0 THEN 1 ELSE 2]

----------------------------------------------------------------------------
(* Operations of the caller on an idle tree.                               *)

\* m.key = c, where c is a Module built earlier or `Module()` built here.
BindChild(m, key, c) ==
    /\ pc = "idle"
    /\ m <= nmods /\ c <= nmods + 1 /\ c \in Modules
    /\ __setattr__(m, key, AsModule(c))
    /\ nmods' = Max(nmods, c)
    /\ UNCHANGED <<nparams, training, pobj, loopvars>>

\* m.key = p, where p is a Parameter built earlier or `Parameter(5)` built here.
BindParam(m, key, p) ==
    /\ pc = "idle"
    /\ m <= nmods /\ p <= nparams + 1 /\ p \in ParamIds
    /\ __setattr__(m, key, AsParameter(p))
    /\ nparams' = Max(nparams, p)
    /\ pobj' = IF p > nparams
               THEN [pobj EXCEPT ![p] = Parameter__init__(Num, None)]
               ELSE pobj
    /\ UNCHANGED <<nmods, training, loopvars>>

\* m.key = v for a value that is neither a Parameter nor a Module.
BindPlain(m, key, v) ==
    /\ pc = "idle"
    /\ m <= nmods
    /\ __setattr__(m, key, AsPlain(v))
    /\ UNCHANGED <<nmods, nparams, training, pobj, loopvars>>

\* m.key is read.
Lookup(m, key) ==
    /\ pc = "idle"
    /\ m <= nmods
    /\ last' = [op |-> "getattr", m |-> m, key |-> key, ret |-> getattr(m, key)]
    /\ UNCHANGED <<nmods, nparams, _modules, _parameters, fields, training, pobj,
                   loopvars, nops>>

\* Parameter(x, name) is constructed, bound to nothing.
Construct(x, nm) ==
    /\ pc = "idle"
    /\ nparams + 1 \in ParamIds
    /\ pobj' = [pobj EXCEPT ![nparams + 1] = Parameter__init__(x, nm)]
    /\ nparams' = nparams + 1
    /\ UNCHANGED <<nmods, _modules, _parameters, fields, training, loopvars>>

\* p.update(x)
Update(p, x) ==
    /\ pc = "idle"
    /\ p <= nparams
    /\ pobj' = [pobj EXCEPT ![p] = Parameter_update(pobj[p], x)]
    /\ UNCHANGED <<nmods, nparams, _modules, _parameters, fields, training, loopvars>>

\* m.add_parameter(k, v)
add_parameter(m, k, v) ==
    /\ pc = "idle"
    /\ m <= nmods /\ nparams + 1 \in ParamIds
    /\ LET val == Parameter__init__(v, Some(k))
       IN  /\ pobj' = [pobj EXCEPT ![nparams + 1] = val]
           /\ _parameters' = [_parameters EXCEPT ![m] = DictSet(@, k, nparams + 1)]
    /\ nparams' = nparams + 1
    /\ UNCHANGED <<nmods, _modules, fields, training, loopvars>>

----------------------------------------------------------------------------
(* The traversals, one loop iteration per step.  While a method runs       *)
(* nothing else does: the program is single threaded.                      *)

train_call(m) ==
    /\ pc = "idle" /\ m <= nmods
    /\ training' = [training EXCEPT ![m] = TRUE]
    /\ queue' = modules(m)
    /\ pc' = "train" /\ self' = m /\ popped' = NoPops
    /\ UNCHANGED <<nmods, nparams, _modules, _parameters, fields, pobj, qnames, params, pnames>>

train_step ==
    /\ pc = "train" /\ Len(queue) > 0
    /\ LET s == train_iter(queue, training)
       IN  /\ Len(s.queue) <= MaxQueue
           /\ queue' = s.queue
           /\ training' = s.training
    /\ popped' = Pop(popped, Head(queue))
    /\ UNCHANGED <<nmods, nparams, _modules, _parameters, fields, pobj, pc, self, qnames, params, pnames>>

eval_call(m) ==
    /\ pc = "idle" /\ m <= nmods
    /\ training' = [training EXCEPT ![m] = FALSE]
    /\ queue' = modules(m)
    /\ pc' = "eval" /\ self' = m /\ popped' = NoPops
    /\ UNCHANGED <<nmods, nparams, _modules, _parameters, fields, pobj, qnames, params, pnames>>

eval_step ==
    /\ pc = "eval" /\ Len(queue) > 0
    /\ LET s == eval_iter(queue, training)
       IN  /\ Len(s.queue) <= MaxQueue
           /\ queue' = s.queue
           /\ training' = s.training
    /\ popped' = Pop(popped, Head(queue))
    /\ UNCHANGED <<nmods, nparams, _modules, _parameters, fields, pobj, pc, self, qnames, params, pnames>>

named_parameters_call(m) ==
    /\ pc = "idle" /\ m <= nmods
    /\ params' = Values(_parameters[m]) /\ pnames' = Keys(_parameters[m])
    /\ queue' = Values(named_children(m)) /\ qnames' = Keys(named_children(m))
    /\ pc' = "named_parameters" /\ self' = m /\ popped' = NoPops
    /\ UNCHANGED <<nmods, nparams, _modules, _parameters, fields, pobj, training>>

named_parameters_step ==
    /\ pc = "named_parameters" /\ Len(queue) > 0
    /\ LET s == named_parameters_iter(Zip(qnames, queue), Zip(pnames, params))
       IN  /\ Len(s.queue) <= MaxQueue
           /\ Len(s.params) <= MaxResult
           /\ \A i \in 1..Len(s.queue) : Len(s.queue[i][1]) <= MaxNameLen
           /\ queue' = Values(s.queue) /\ qnames' = Keys(s.queue)
           /\ params' = Values(s.params) /\ pnames' = Keys(s.params)
    /\ popped' = Pop(popped, Head(queue))
    /\ UNCHANGED <<nmods, nparams, _modules, _parameters, fields, pobj, training, pc, self>>

parameters_call(m) ==
    /\ pc = "idle" /\ m <= nmods
    /\ params' = Values(_parameters[m])
    /\ queue' = modules(m)
    /\ pc' = "parameters" /\ self' = m /\ popped' = NoPops
    /\ UNCHANGED <<nmods, nparams, _modules, _parameters, fields, pobj, training, qnames, pnames>>

parameters_step ==
    /\ pc = "parameters" /\ Len(queue) > 0
    /\ LET s == parameters_iter(queue, params)
       IN  /\ Len(s.queue) <= MaxQueue
           /\ Len(s.params) <= MaxResult
           /\ queue' = s.queue
           /\ params' = s.params
    /\ popped' = Pop(popped, Head(queue))
    /\ UNCHANGED <<nmods, nparams, _modules, _parameters, fields, pobj, training, pc, self, qnames, pnames>>

\* The loop condition is false: the method returns.
Return ==
    /\ pc # "idle" /\ Len(queue) = 0
    /\ pc' = "idle" /\ self' = 0 /\ popped' = NoPops
    /\ params' = <<>> /\ pnames' = <<>>
    /\ UNCHANGED <<nmods, nparams, _modules, _parameters, fields, pobj, training, queue, qnames>>

Step == train_step \/ eval_step \/ named_parameters_step \/ parameters_step


----------------------------------------------------------------------------
(* Shape of the structure below a Module.                                  *)

Kids(m) == {modules(m)[i] : i \in 1..Len(modules(m))}

RECURSIVE Closure(_, _)
Closure(S, n) ==
    IF n = 0 THEN S ELSE Closure(S \cup UNION {Kids(x) : x \in S}, n - 1)

\* The Modules reachable from m through one or more children entries.
Desc(m) == Closure(Kids(m), Cardinality(Modules))

ReachesCycle(m) == \E x \in Desc(m) \cup {m} : x \in Desc(x)
Acyclic(m) == ~ReachesCycle(m)

\* The children entries of Modules in S that hold d.
InEdges(d, S) == {<<x, i>> \in S \X (1..Cardinality(Names \cup {"a.b"})) :
                    i <= Len(modules(x)) /\ modules(x)[i] = d}

\* Below m every Module is held by exactly one children entry, m by none.
IsTree(m) ==
    /\ Acyclic(m)
    /\ \A d \in Desc(m) : Cardinality(InEdges(d, Desc(m) \cup {m})) = 1

AtExit(method) == pc = method /\ Len(queue) = 0

----------------------------------------------------------------------------
(* SpecMode: trees of up to four Modules are built top down, each child a  *)
(* new Module, and train / eval run on any Module of them.                 *)

GrowTree == \E m \in Modules, key \in Names : BindChild(m, key, nmods + 1)

Returned == [NoOp EXCEPT !.op = pc, !.m = self]

NextMode ==
    \/ GrowTree /\ last' = NoOp /\ UNCHANGED nops
    \/ \E m \in Modules : train_call(m) /\ UNCHANGED <<last, nops>>
    \/ \E m \in Modules : eval_call(m) /\ UNCHANGED <<last, nops>>
    \/ train_step /\ UNCHANGED <<last, nops>>
    \/ eval_step /\ UNCHANGED <<last, nops>>
    \/ Return /\ last' = Returned /\ UNCHANGED nops

SpecMode == Init /\ [][NextMode]_vars

\* C1: when train() called on M is about to return, training is true on M
\* and on every descendant of M; when eval() is about to return it is false
\* on all of them, also when the call before it was M.train().
C1_ModePropagates ==
    /\ AtExit("train") => \A d \in Desc(self) \cup {self} : training[d] = TRUE
    /\ AtExit("eval") => \A d \in Desc(self) \cup {self} : training[d] = FALSE

\* root -> A, B and A -> C; root.train() returned and root.eval() is about
\* to return with every flag false.
C1_Witness ==
    /\ AtExit("eval") /\ self = 1
    /\ last.op = "train" /\ last.m = 1
    /\ Len(modules(1)) = 2
    /\ \E d \in Desc(1) : d \notin Kids(1)
    /\ \A d \in Modules : training[d] = FALSE

----------------------------------------------------------------------------
(* SpecFlat: trees of up to four Modules are built top down, Parameters    *)
(* are added to them (and replaced) with add_parameter, and                *)
(* named_parameters runs on any Module of them.                            *)

FlatParamIds == {1, 2}

AddParams ==
    \E m \in Modules, k \in AllNames :
        nparams + 1 \in FlatParamIds /\ add_parameter(m, k, Num)

NextFlat ==
    \/ GrowTree /\ UNCHANGED <<last, nops>>
    \/ AddParams /\ UNCHANGED <<last, nops>>
    \/ \E m \in Modules : named_parameters_call(m) /\ UNCHANGED <<last, nops>>
    \/ named_parameters_step /\ UNCHANGED <<last, nops>>
    \/ Return /\ UNCHANGED <<last, nops>>

SpecFlat == Init /\ [][NextFlat]_vars

\* The order the documentation describes, level by level: a node is a pair
\* <<path of local names from M, Module>>.
RECURSIVE Flatten(_)
Flatten(ss) == IF Len(ss) = 0 THEN <<>> ELSE Head(ss) \o Flatten(Tail(ss))

RECURSIVE JoinDots(_)
JoinDots(path) ==
    IF Len(path) = 1 THEN path[1] ELSE path[1] \o "." \o JoinDots(Tail(path))

ChildNodes(node) ==
    [j \in 1..Len(_modules[node[2]]) |->
        <<Append(node[1], _modules[node[2]][j][1]), _modules[node[2]][j][2]>>]

OwnEntries(node) ==
    [j \in 1..Len(_parameters[node[2]]) |->
        <<JoinDots(Append(node[1], _parameters[node[2]][j][1])),
          _parameters[node[2]][j][2]>>]

RECURSIVE Level(_, _)
Level(M, n) ==
    IF n = 0 THEN << <<<<>>, M>> >>
    ELSE LET up == Level(M, n - 1)
         IN  Flatten([i \in 1..Len(up) |-> ChildNodes(up[i])])

LevelOrder(M) ==
    Flatten([n \in 1..Cardinality(Modules) |->
        LET nodes == Level(M, n - 1)
        IN  Flatten([i \in 1..Len(nodes) |-> OwnEntries(nodes[i])])])

\* C2: on a tree, what named_parameters() called on M is about to return is
\* M's own parameters under their bare names, then the parameters of each
\* descendant level by level, each under the dot-joined path from M.
C2_BreadthFirstOrder ==
    (AtExit("named_parameters") /\ IsTree(self)) => Zip(pnames, params) = LevelOrder(self)

\* root -> A, B and A -> C, with a parameter on B and one on C: B's comes
\* before C's, which a depth-first walk would put first.
C2_Witness ==
    /\ AtExit("named_parameters") /\ self = 1 /\ IsTree(1)
    /\ \E b \in Kids(1), c \in Desc(1) \ Kids(1) :
         /\ Len(_parameters[b]) = 1 /\ Len(_parameters[c]) = 1
         /\ Len(_modules[b]) = 0
         /\ Len(params) = 2
         /\ params[1] = _parameters[b][1][2]
         /\ params[2] = _parameters[c][1][2]
         /\ modules(1)[2] = b

DottedNames == {"a.b"}

\* No local name bound at or below m contains a ".".
NoDots(m) ==
    \A d \in Desc(m) \cup {m} :
        /\ \A i \in 1..Len(_modules[d]) : _modules[d][i][1] \notin DottedNames
        /\ \A i \in 1..Len(_parameters[d]) : _parameters[d][i][1] \notin DottedNames

\* C10: on a tree whose local names contain no ".", the qualified names
\* named_parameters() is about to return are pairwise distinct.
C10_QualifiedNamesDistinct ==
    (AtExit("named_parameters") /\ IsTree(self) /\ NoDots(self)) =>
        \A i, j \in 1..Len(pnames) : i # j => pnames[i] # pnames[j]

\* A node holds the same local name in both dicts, the child under that
\* name holds a parameter, and both qualified names are returned.
C10_Witness ==
    /\ AtExit("named_parameters") /\ IsTree(self) /\ NoDots(self)
    /\ \E k \in Names :
         /\ Has(_parameters[self], k) /\ Has(_modules[self], k)
         /\ Len(_parameters[Get(_modules[self], k)]) > 0
    /\ Len(params) = 2

----------------------------------------------------------------------------
(* Spec: up to three Modules are bound to each other without restriction   *)
(* (a Module may be bound twice, or below itself), Parameters are bound,   *)
(* rebound and added, and all four traversals run on the first Module.     *)
(* SpecFair is the same with fewer bindings, and says that a method that   *)
(* has been called keeps executing.                                        *)

GenModules == {1, 2, 3}

Counted(bound) == nops < bound /\ nops' = nops + 1 /\ UNCHANGED last

Ops(bound) ==
    \/ \E m, c \in GenModules, key \in Names :
            BindChild(m, key, c) /\ Counted(bound)
    \/ \E m \in GenModules, key \in Names, p \in ParamIds :
            BindParam(m, key, p) /\ Counted(bound)
    \/ \E m \in GenModules, k \in Names :
            add_parameter(m, k, Num) /\ Counted(bound)
    \/ train_call(1) /\ UNCHANGED <<last, nops>>
    \/ eval_call(1) /\ UNCHANGED <<last, nops>>
    \/ named_parameters_call(1) /\ UNCHANGED <<last, nops>>
    \/ parameters_call(1) /\ UNCHANGED <<last, nops>>
    \/ train_step /\ UNCHANGED <<last, nops>>
    \/ eval_step /\ UNCHANGED <<last, nops>>
    \/ named_parameters_step /\ UNCHANGED <<last, nops>>
    \/ parameters_step /\ UNCHANGED <<last, nops>>
    \/ Return /\ UNCHANGED <<last, nops>>

Next == Ops(MaxOps)

Spec == Init /\ [][Next]_vars

NextFair == Ops(MaxFairOps)

Running == (Step \/ Return) /\ UNCHANGED <<last, nops>>

SpecFair == Init /\ [][NextFair]_vars /\ WF_vars(Running)

InQueue(d) == Cardinality({i \in 1..Len(queue) : queue[i] = d})

\* The list of pairs named_parameters has built.
named_result == Zip(pnames, params)

RECURSIVE EntryCount(_)
EntryCount(S) ==
    IF S = {} THEN 0
    ELSE LET d == CHOOSE x \in S : TRUE
         IN  Len(_parameters[d]) + EntryCount(S \ {d})

\* C8 as stated: when a traversal of an acyclic structure is about to
\* return, every Module reachable from the receiver was dequeued exactly once.
C8_AcyclicVisitedOnce ==
    (pc # "idle" /\ Len(queue) = 0 /\ Acyclic(self)) =>
        \A d \in Desc(self) : popped[d] = 1

\* C8 amended: during a traversal of a tree no Module is in the deque or
\* dequeued more than once and the receiver never is; when the traversal is
\* about to return every Module below the receiver was dequeued exactly once
\* and the result of parameters / named_parameters has one element per
\* entry of the _parameters dicts at and below the receiver.
C8_TreeVisitedOnce ==
    (pc # "idle" /\ IsTree(self)) =>
        /\ \A d \in Modules : popped[d] + InQueue(d) <= 1
        /\ popped[self] + InQueue(self) = 0
        /\ \A d \in Modules \ Desc(self) : popped[d] + InQueue(d) = 0
        /\ Len(queue) = 0 =>
            /\ \A d \in Desc(self) : popped[d] = 1
            /\ pc \in {"parameters", "named_parameters"} =>
                 Len(params) = EntryCount(Desc(self) \cup {self})

\* parameters() is about to return on a tree of three Modules holding a
\* Parameter below the receiver.
C8_Witness ==
    /\ AtExit("parameters") /\ IsTree(self)
    /\ Cardinality(Desc(self)) = 2
    /\ \A d \in Desc(self) : popped[d] = 1
    /\ \E d \in Desc(self) : Len(_parameters[d]) = 1
    /\ Len(params) = 1

\* C9: a traversal of an acyclic structure returns; the deque of a traversal
\* whose receiver reaches a cycle is never empty, so it never returns.
C9_TerminatesIffAcyclic ==
    /\ (pc # "idle" /\ Acyclic(self)) ~> (pc = "idle")
    /\ [](pc # "idle" /\ ReachesCycle(self) => Len(queue) > 0)

\* A traversal went round a cycle through its receiver and is still running.
C9_Witness ==
    /\ pc = "named_parameters" /\ self \in Desc(self)
    /\ popped[self] = 2 /\ Len(queue) > 0

DropNames(ps) == [i \in 1..Len(ps) |-> ps[i][2]]

\* C3: what parameters() is about to return is what named_parameters()
\* returns in the same state with the names dropped, and the other way round.
C3_ParametersDropsNames ==
    /\ AtExit("parameters") => params = DropNames(named_parameters(self))
    /\ AtExit("named_parameters") => DropNames(named_result) = parameters(self)

\* parameters() is about to return two different Parameters, one the
\* receiver's own and one from below.
C3_Witness ==
    /\ AtExit("parameters") /\ Len(params) = 2 /\ params[1] # params[2]
    /\ Len(_parameters[self]) = 1

----------------------------------------------------------------------------
(* Rebinding, checked on the steps of Spec.                                *)

\* new is old with the value under the existing key k replaced by v, every
\* entry where it was.
ReplacedInPlace(old, new, k, v) ==
    /\ Len(new) = Len(old)
    /\ Keys(new) = Keys(old)
    /\ \A i \in 1..Len(old) :
         new[i] = IF old[i][1] = k THEN <<k, v>> ELSE old[i]

Rebound(old, new, k, v) ==
    IF Has(old, k) THEN ReplacedInPlace(old, new, k, v)
    ELSE new = Append(old, <<k, v>>)

\* new is old (a result list) except where it held the Parameter was and
\* now holds the Parameter now.
SameButFor(old, new, was, now) ==
    /\ Len(new) = Len(old)
    /\ \A i \in 1..Len(old) : new[i] # old[i] => old[i] = was /\ new[i] = now

\* What a binding of Parameter p under key of m leaves as it was.
ParamRebound(m, key, p) ==
    /\ Rebound(_parameters[m], _parameters'[m], key, p)
    /\ \A r \in Modules :
         /\ modules(r)' = modules(r)
         /\ named_children(r)' = named_children(r)
         /\ r # m => _parameters'[r] = _parameters[r]
    /\ Has(_parameters[m], key) =>
         \A r \in GenModules : Acyclic(r) =>
            /\ Keys(named_parameters(r)') = Keys(named_parameters(r))
            /\ SameButFor(Values(named_parameters(r)), Values(named_parameters(r)'),
                          Get(_parameters[m], key), p)
            /\ SameButFor(parameters(r), parameters(r)', Get(_parameters[m], key), p)

\* What a binding of Module c under key of m leaves as it was.
ChildRebound(m, key, c) ==
    /\ Rebound(_modules[m], _modules'[m], key, c)
    /\ modules(m)' = Values(_modules'[m])
    /\ \A r \in Modules :
         /\ _parameters'[r] = _parameters[r]
         /\ r # m => named_children(r)' = named_children(r)

\* C4 as stated, for the rebinding of a child: the results of parameters()
\* and named_parameters() keep their length and their names.
C4_ChildRebindKeepsParameters ==
    [][\A m, c \in GenModules, key \in Names :
         (BindChild(m, key, c) /\ Has(_modules[m], key)) =>
            \A r \in GenModules : (Acyclic(r) /\ Acyclic(r)') =>
                /\ Len(parameters(r)') = Len(parameters(r))
                /\ Keys(named_parameters(r)') = Keys(named_parameters(r))]_vars

\* C4 amended: a binding under an existing key replaces the value where the
\* key is and a binding under a new key appends.  Rebinding a Parameter
\* leaves modules(), named_children(), and the names and all other
\* elements of parameters() and named_parameters() as they were; rebinding
\* a child leaves the other entries of modules() and named_children() and
\* every _parameters dict as they were.
C4_RebindInPlace ==
    [][\A m \in GenModules, key \in Names :
         /\ \A p \in ParamIds : BindParam(m, key, p) => ParamRebound(m, key, p)
         /\ add_parameter(m, key, Num) => ParamRebound(m, key, nparams + 1)
         /\ \A c \in GenModules : BindChild(m, key, c) => ChildRebound(m, key, c)]_vars

\* "a" was bound before "b" and rebound after it: it holds the Parameter
\* constructed last and is still first.
C4_Witness ==
    /\ Keys(_parameters[1]) = <<"a", "b">>
    /\ Values(_parameters[1]) = <<3, 2>>

----------------------------------------------------------------------------
(* SpecLookup: Parameters, Modules and plain values are bound to the       *)
(* attributes of the first Module, and attributes are read.                *)

LookupModules == {1, 2}
LookupParamIds == {1, 2}
PlainValues == {7}

NextLookup ==
    \/ \E key \in Names, c \in LookupModules :
            BindChild(1, key, c) /\ last' = NoOp /\ UNCHANGED nops
    \/ \E key \in Names, p \in LookupParamIds :
            BindParam(1, key, p) /\ last' = NoOp /\ UNCHANGED nops
    \/ \E key \in Names, v \in PlainValues :
            BindPlain(1, key, v) /\ last' = NoOp /\ UNCHANGED nops
    \/ \E m \in LookupModules, key \in Names : Lookup(m, key)

SpecLookup == Init /\ [][NextLookup]_vars

\* C5: a lookup returns the plain value if the name is a plain attribute,
\* else the Parameter if the name is in _parameters, else the child if the
\* name is in _modules, else None.
C5_LookupOrder ==
    last.op = "getattr" =>
        LET m == last.m
            key == last.key
        IN  /\ fields[m][key] # 0 => last.ret = AsPlain(fields[m][key])
            /\ (fields[m][key] = 0 /\ Has(_parameters[m], key)) =>
                 last.ret = AsParameter(Get(_parameters[m], key))
            /\ (fields[m][key] = 0 /\ ~Has(_parameters[m], key)
                  /\ Has(_modules[m], key)) =>
                 last.ret = AsModule(Get(_modules[m], key))
            /\ (fields[m][key] = 0 /\ ~Has(_parameters[m], key)
                  /\ ~Has(_modules[m], key)) =>
                 last.ret = NoneValue

\* The name read is in _parameters and in _modules, and the Parameter came back.
C5_Witness ==
    /\ last.op = "getattr" /\ last.ret.kind = "Parameter"
    /\ Has(_parameters[last.m], last.key) /\ Has(_modules[last.m], last.key)
    /\ fields[last.m][last.key] = 0

\* C6: a binding writes the store of its value's kind and leaves the other
\* two stores, and the other entries of its own, as they were.
C6_WritesOneStore ==
    [][\A key \in Names :
         /\ \A p \in LookupParamIds : BindParam(1, key, p) =>
              /\ _modules' = _modules /\ fields' = fields
              /\ \A r \in Modules : modules(r)' = modules(r)
              /\ Has(_modules[1], key) =>
                   Has(_modules'[1], key) /\ Has(_parameters'[1], key)
         /\ \A c \in LookupModules : BindChild(1, key, c) =>
              /\ _parameters' = _parameters /\ fields' = fields
              /\ Has(_parameters[1], key) =>
                   /\ Has(_modules'[1], key) /\ Has(_parameters'[1], key)
                   /\ Acyclic(1) /\ Acyclic(1)' =>
                        \E i \in 1..Len(parameters(1)') :
                            parameters(1)'[i] = Get(_parameters[1], key)
         /\ \A v \in PlainValues : BindPlain(1, key, v) =>
              _modules' = _modules /\ _parameters' = _parameters]_vars

\* One name is in _modules and in _parameters of the same Module.
C6_Witness ==
    \E key \in Names : Has(_modules[1], key) /\ Has(_parameters[1], key)

----------------------------------------------------------------------------
(* SpecParameter: Parameters are constructed around payloads of every      *)
(* kind, with and without a name, and updated.                             *)

Payloads ==
    {Payload(g, FALSE, None) : g \in {"na", "off", "on"}}
        \cup {Payload(g, TRUE, nm) : g \in {"na", "off", "on"},
                                     nm \in {None, Some("old")}}

ParamNames == {None, Some(""), Some("w")}

BoxIds == {1, 2}

NextParameter ==
    \/ \E x \in Payloads, nm \in ParamNames :
            nparams + 1 \in BoxIds /\ Construct(x, nm) /\ UNCHANGED <<last, nops>>
    \/ \E p \in BoxIds, x \in Payloads : Update(p, x) /\ UNCHANGED <<last, nops>>

SpecParameter == Init /\ [][NextParameter]_vars

\* C7 as stated, part (b): a Parameter with a name whose payload has a name
\* attribute holds a payload of that name.
C7_NameAlwaysSynced ==
    \A p \in BoxIds :
        (p <= nparams /\ pobj[p].name # None /\ pobj[p].value.named) =>
            pobj[p].value.name = pobj[p].name

\* What is stored after payload x went into a Parameter named nm.
Synced(par, x, nm) ==
    /\ par.name = nm
    /\ IF hasattr_requires_grad_(x)
       THEN /\ par.value.grad = "on"
            /\ IF Truthy(nm)
               THEN par.value.named /\ par.value.name = nm
               ELSE par.value.named = x.named /\ par.value.name = x.name
       ELSE par.value = x

\* C7 amended: after construction and after update the Parameter keeps its
\* own name; a payload with requires_grad_ has been marked trainable and,
\* when the Parameter's name is neither None nor empty, carries that name;
\* a payload without requires_grad_ is stored untouched, its name too.
C7_SyncedWhenTrainable ==
    [][/\ \A x \in Payloads, nm \in ParamNames :
            Construct(x, nm) => Synced(pobj'[nparams + 1], x, nm)
       /\ \A p \in BoxIds, x \in Payloads :
            Update(p, x) => Synced(pobj'[p], x, pobj[p].name)]_vars

\* The second Parameter built has the empty name and a trainable payload:
\* the payload is marked and keeps the name it came with.
C7_Witness ==
    /\ nparams = 2
    /\ pobj[2].name = Some("")
    /\ pobj[2].value = Payload("on", TRUE, Some("old"))
    /\ pobj[1].name = Some("w")
    /\ pobj[1].value = Payload("on", TRUE, Some("w"))

====
